---- MODULE Spec2Model ----
(***************************************************************************)
(* Guardrail engine and pipeline orchestrator of the multi-agent research  *)
(* assistant: src/src/guardrails/safety_controls.py and                    *)
(* src/src/orchestrator.py.                                                *)
(*                                                                         *)
(* Spec     : one thread of control.  Pipeline runs                        *)
(*            (research_and_summarize) execute one after another, step by  *)
(*            step; between runs other callers use check_rate_limit        *)
(*            directly.  The wall clock `now` never runs backwards.        *)
(* ConcSpec : several threads inside check_rate_limit on the shared        *)
(*            engine, interleaved statement by statement.                  *)
(* SingletonSpec : several threads inside get_guardrails before any engine *)
(*            exists, interleaved statement by statement.                  *)
(***************************************************************************)
EXTENDS Integers, Sequences, FiniteSets, TLC

(***************************************************************************)
(* Bounds of the model.                                                    *)
(***************************************************************************)
\* The quota the engine is configured with, config['rate_limit_requests']
\* (10 when no configuration is given).
Quota == 2
\* The window the engine is configured with, config['rate_limit_window'], in
\* clock ticks (60 seconds when no configuration is given).
Window == 2
\* The clock stops advancing at MaxTime.
MaxTime == 3
\* Direct check_rate_limit calls made by callers other than the orchestrator.
MaxCalls == 1
\* Pipeline runs started.
MaxRuns == 4
\* ConcSpec: threads that call check_rate_limit on the shared engine, and the
\* calls they make in all.
NumThreads == 2
MaxThreadCalls == 3
\* SingletonSpec: get_guardrails calls each thread makes.
MaxGets == 3

VARIABLES
    now,                \* datetime.now(), in clock ticks
    rate_limit,         \* SafetyGuardrails.rate_limit
    rate_window,        \* SafetyGuardrails.rate_window
    operation_history,  \* SafetyGuardrails.operation_history
    admitted,           \* history variable: every admitted call, never pruned
    solo,               \* history variable: per identity, the operation_history of
                        \* an engine that sees that identity's calls only
    last,               \* history variable: the latest check_rate_limit call
    ncalls,             \* history variable: number of direct calls made
    run,                \* the research_and_summarize call in progress
    runs_started,       \* history variable: number of runs started
    run_admits,         \* history variable: admission time of every admitted run
    threads,            \* ConcSpec: each thread's place inside check_rate_limit
    audit_log,          \* the entries of log_operation calls the engine holds
    guardrails_instance,\* the global _guardrails_instance: 0 is None, else the
                        \* number of the SafetyGuardrails instance it names
    constructed,        \* number of SafetyGuardrails instances constructed
    callers,            \* SingletonSpec: each thread's place inside get_guardrails
    prev,               \* history variable: start time and session id of the
                        \* latest admitted run that has returned
    files,              \* FileSpec: the regular files of the file system, by
                        \* absolute path, with their text
    saved,              \* history variable: per file the tool wrote, the content
                        \* its latest save_research call was given
    fs_last,            \* history variable: the latest FileSystemTool call
    call,               \* GuardSpec: the guardrail call in progress or completed
    saved_as,           \* history variable: per filename given, the content of
                        \* the latest save_research call that returned
    request_timestamps, \* WebSpec: WebSearchTool.request_timestamps of the one
                        \* instance
    web_admitted,       \* history variable: the time of every call the
                        \* instance's _check_rate_limit admitted, never pruned
    web_last,           \* history variable: the latest web search call
    web_calls,          \* history variable: number of web search calls made
    searches            \* history variable: the time of every search performed

limiter == <<operation_history, admitted, solo, last>>
config == <<rate_limit, rate_window>>
vars == <<now, rate_limit, rate_window, operation_history, admitted, solo, last, ncalls,
          run, runs_started, run_admits, threads, audit_log,
          guardrails_instance, constructed, callers, prev,
         files, saved, fs_last, call, saved_as, request_timestamps, web_admitted,
         web_last, web_calls, searches>>
singleton == <<guardrails_instance, constructed, callers>>
web == <<request_timestamps, web_admitted, web_last, web_calls, searches>>
units == <<files, saved, fs_last, call, saved_as, web>>

ORCHESTRATOR == "orchestrator"
\* Another caller of the engine, whose identity differs from the
\* orchestrator's only in letter case.
DirectIds == {"Orchestrator"}
AgentIds == {ORCHESTRATOR} \cup DirectIds

(***************************************************************************)
(* SafetyGuardrails.check_rate_limit                                       *)
(***************************************************************************)
\* cutoff_time = current_time - timedelta(seconds=self.rate_window)
cutoff_time(current_time, window) == current_time - window

\* [op for op in self.operation_history if op['timestamp'] > cutoff_time]
RemoveOld(history, current_time, window) ==
    SelectSeq(history, LAMBDA op : op.timestamp > cutoff_time(current_time, window))

\* Identities folded to one letter case.
FoldCase(agent_id) == IF agent_id = "Orchestrator" THEN "orchestrator" ELSE agent_id

\* Mutant of agent_operations: identities compared without regard to case.
agent_operations_nocase(history, agent_id) ==
    SelectSeq(history, LAMBDA op : FoldCase(op.agent_id) = FoldCase(agent_id))

\* [op for op in self.operation_history if op['agent_id'] == agent_id]
agent_operations(history, agent_id) ==
    SelectSeq(history, LAMBDA op : op.agent_id = agent_id)

\* Mutant of is_allowed: equality admits.
is_allowed_at_quota(history, agent_id, limit) ==
    ~(Len(agent_operations(history, agent_id)) > limit)

\* not (len(agent_operations) >= self.rate_limit)
is_allowed(history, agent_id, limit) ==
    ~(Len(agent_operations(history, agent_id)) >= limit)

\* Mutant of RecordOperation: a denied attempt is recorded too.
RecordEveryAttempt(pruned, agent_id, current_time, allowed) ==
    Append(pruned, [agent_id |-> agent_id, timestamp |-> current_time])

\* The history a call leaves behind, given the pruned history and its verdict.
RecordOperation(pruned, agent_id, current_time, allowed) ==
    IF allowed
    THEN Append(pruned, [agent_id |-> agent_id, timestamp |-> current_time])
    ELSE pruned

\* The whole method: [allowed, history] from the engine's fields and the clock.
check_rate_limit(history, agent_id, current_time, limit, window) ==
    LET pruned  == RemoveOld(history, current_time, window)
        allowed == is_allowed(pruned, agent_id, limit)
    IN  [allowed |-> allowed,
         history |-> RecordOperation(pruned, agent_id, current_time, allowed)]

NoCall == [agent_id |-> "", timestamp |-> -1, allowed |-> FALSE,
           solo_allowed |-> FALSE, before |-> <<>>, admitted_before |-> <<>>,
           prev_denied |-> FALSE]

\* A check_rate_limit(agent_id) call as one step, with the history variables.
RateLimitCall(agent_id) ==
    LET r == check_rate_limit(operation_history, agent_id, now, rate_limit, rate_window)
        s == check_rate_limit(solo[agent_id], agent_id, now, rate_limit, rate_window)
    IN  /\ operation_history' = r.history
        /\ solo' = [solo EXCEPT ![agent_id] = s.history]
        /\ admitted' = IF r.allowed
                       THEN Append(admitted, [agent_id |-> agent_id, timestamp |-> now])
                       ELSE admitted
        /\ last' = [agent_id |-> agent_id, timestamp |-> now, allowed |-> r.allowed,
                    solo_allowed |-> s.allowed, before |-> operation_history,
                    admitted_before |-> admitted,
                    prev_denied |-> (last.agent_id = agent_id /\ ~last.allowed)]

(***************************************************************************)
(* Text.  A text is a TLA+ string; Len, SubSeq and \o act on its           *)
(* characters.                                                             *)
(***************************************************************************)
CharAt(text, i) == SubSeq(text, i, i)

UpperCase == "ABCDEFGHIJKLMNOPQRSTUVWXYZ"
LowerCase == "abcdefghijklmnopqrstuvwxyz"
Digits    == "0123456789"

\* The lower-case letter of every upper-case letter.
LowerOf ==
    [c \in {CharAt(UpperCase, k) : k \in 1..Len(UpperCase)} |->
        CharAt(LowerCase, CHOOSE k \in 1..Len(UpperCase) : CharAt(UpperCase, k) = c)]

\* str.lower() on one character.
LowerChar(c) == IF c \in DOMAIN LowerOf THEN LowerOf[c] ELSE c

\* Mutant of lower: the letter case is kept.
lower_keeping_case(text) == text

\* str.lower(): every character lowered, the text taken by halves.
RECURSIVE lower(_)
lower(text) ==
    IF Len(text) = 0 THEN ""
    ELSE IF Len(text) = 1 THEN LowerChar(text)
    ELSE LET half == Len(text) \div 2
         IN  lower(SubSeq(text, 1, half)) \o lower(SubSeq(text, half + 1, Len(text)))

\* `sub in text` with sub starting at position i.
OccursAt(text, sub, i) ==
    /\ i >= 1
    /\ i + Len(sub) - 1 <= Len(text)
    /\ SubSeq(text, i, i + Len(sub) - 1) = sub

\* `sub in text`
Contains(text, sub) == \E i \in 1..(Len(text) + 1) : OccursAt(text, sub, i)

\* \s and \w of Python's re, on the characters the model's texts use.
SpaceChars == {" ", "\t", "\n", "\r"}
WordChars ==
    {CharAt(LowerCase, k) : k \in 1..Len(LowerCase)}
      \cup {CharAt(UpperCase, k) : k \in 1..Len(UpperCase)}
      \cup {CharAt(Digits, k) : k \in 1..Len(Digits)} \cup {"_"}
IsSpace(c) == c \in SpaceChars
IsWord(c) == c \in WordChars

\* Mutant of strip: the surrounding whitespace is kept.
strip_nothing(text) == text

\* str.strip()
RECURSIVE lstrip(_)
lstrip(text) ==
    IF Len(text) > 0 /\ IsSpace(CharAt(text, 1))
    THEN lstrip(SubSeq(text, 2, Len(text)))
    ELSE text
RECURSIVE rstrip(_)
rstrip(text) ==
    IF Len(text) > 0 /\ IsSpace(CharAt(text, Len(text)))
    THEN rstrip(SubSeq(text, 1, Len(text) - 1))
    ELSE text
strip(text) == lstrip(rstrip(text))

(***************************************************************************)
(* SafetyGuardrails.validate_input and validate_output                     *)
(***************************************************************************)
blocked_terms == <<"malware", "exploit", "hack", "phishing",
                   "illegal", "piracy", "crack", "keygen">>
max_content_length == 50000
min_output_length == 50
require_citations == TRUE

\* re.search(r'<script[^>]*>.*?</script>', content, re.IGNORECASE)
MatchesScriptTag(content) ==
    LET t == lower(content)
    IN  \E i \in 1..Len(t) :
          /\ OccursAt(t, "<script", i)
          /\ \E j \in (i + 7)..Len(t) :
                /\ CharAt(t, j) = ">"
                /\ \A m \in (i + 7)..(j - 1) : CharAt(t, m) # ">"
                /\ \E k \in (j + 1)..Len(t) :
                      /\ OccursAt(t, "</script>", k)
                      /\ \A m \in (j + 1)..(k - 1) : CharAt(t, m) # "\n"

\* re.search(r'on\w+\s*=', content, re.IGNORECASE)
MatchesEventHandler(content) ==
    LET t == lower(content)
    IN  \E i \in 1..Len(t) :
          /\ OccursAt(t, "on", i)
          /\ \E j \in (i + 2)..Len(t) : \E k \in (j + 1)..Len(t) :
                /\ \A m \in (i + 2)..j : IsWord(CharAt(t, m))
                /\ \A m \in (j + 1)..(k - 1) : IsSpace(CharAt(t, m))
                /\ CharAt(t, k) = "="

\* any(re.search(pattern, content, re.IGNORECASE) for pattern in suspicious_patterns)
MatchesSuspiciousPattern(content) ==
    \/ MatchesScriptTag(content)
    \/ Contains(lower(content), "javascript:")
    \/ MatchesEventHandler(content)
    \/ Contains(lower(content), "eval(")
    \/ Contains(lower(content), "exec(")

Valid == [is_valid |-> TRUE, error |-> "None"]
Rejected(reason) == [is_valid |-> FALSE, error |-> reason]

\* The first blocked term, in list order, that the lowered content contains.
FirstBlockedTerm(content) ==
    LET hits == {k \in 1..Len(blocked_terms) :
                    Contains(lower(content), lower(blocked_terms[k]))}
    IN  IF hits = {} THEN 0 ELSE CHOOSE k \in hits : \A h \in hits : k <= h

\* Mutant of validate_input: the length rule is applied before the blocked
\* terms.
validate_input_length_first(content) ==
    IF Len(content) > max_content_length
    THEN Rejected("Content exceeds maximum length (50000 chars)")
    ELSE IF FirstBlockedTerm(content) # 0
    THEN Rejected("Content contains blocked term: "
                  \o blocked_terms[FirstBlockedTerm(content)])
    ELSE IF MatchesSuspiciousPattern(content)
    THEN Rejected("Content contains potentially malicious patterns")
    ELSE Valid

validate_input(content) ==
    IF FirstBlockedTerm(content) # 0
    THEN Rejected("Content contains blocked term: "
                  \o blocked_terms[FirstBlockedTerm(content)])
    ELSE IF Len(content) > max_content_length
    THEN Rejected("Content exceeds maximum length (50000 chars)")
    ELSE IF MatchesSuspiciousPattern(content)
    THEN Rejected("Content contains potentially malicious patterns")
    ELSE Valid

\* re.search(r'https?://[^\s]+', content)
HasUrl(content) ==
    \E i \in 1..Len(content) : \E scheme \in {"http://", "https://"} :
        /\ OccursAt(content, scheme, i)
        /\ i + Len(scheme) <= Len(content)
        /\ ~IsSpace(CharAt(content, i + Len(scheme)))

\* re.search(r'(source|reference|citation):', content, re.IGNORECASE)
HasSources(content) ==
    \E label \in {"source:", "reference:", "citation:"} : Contains(lower(content), label)

validate_output(content) ==
    IF ~validate_input(content).is_valid
    THEN validate_input(content)
    ELSE IF Len(strip(content)) < min_output_length
    THEN Rejected("Output is too short to be useful")
    ELSE IF require_citations /\ ~(HasUrl(content) \/ HasSources(content))
    THEN Rejected("Output missing required citations/sources")
    ELSE Valid

(***************************************************************************)
(* SafetyGuardrails.validate_research_quality                              *)
(***************************************************************************)
\* Mutant of validate_research_quality: one source is enough.
validate_research_quality_one_source(research) ==
    IF "findings" \notin DOMAIN research THEN Rejected("Missing required field: findings")
    ELSE IF "sources" \notin DOMAIN research THEN Rejected("Missing required field: sources")
    ELSE IF Len(research.findings) < 100 THEN Rejected("Research findings are insufficient")
    ELSE IF Len(research.sources) < 1 THEN Rejected("Insufficient number of sources (minimum 2 required)")
    ELSE Valid

\* A research artifact is a record; `field in research` is membership in
\* its DOMAIN.  findings is a text, sources a sequence.
validate_research_quality(research) ==
    IF "findings" \notin DOMAIN research
    THEN Rejected("Missing required field: findings")
    ELSE IF "sources" \notin DOMAIN research
    THEN Rejected("Missing required field: sources")
    ELSE IF Len(research.findings) < 100
    THEN Rejected("Research findings are insufficient")
    ELSE IF Len(research.sources) < 2
    THEN Rejected("Insufficient number of sources (minimum 2 required)")
    ELSE Valid

(***************************************************************************)
(* SafetyGuardrails.log_operation                                          *)
(***************************************************************************)
\* log_entry = {'timestamp': ..., 'agent_id': ..., 'operation': ...,
\*              'status': ..., 'metadata': metadata or {}}
log_entry(current_time, agent_id, operation, status, metadata) ==
    [timestamp |-> current_time, agent_id |-> agent_id, operation |-> operation,
     status |-> status, metadata |-> metadata]

\* The entries the engine holds after the call: the method builds log_entry
\* in a local name and returns; no attribute of the engine receives it.
log_operation(log, current_time, agent_id, operation, status, metadata) ==
    LET entry == log_entry(current_time, agent_id, operation, status, metadata)
    IN  log

(***************************************************************************)
(* MultiAgentOrchestrator.research_and_summarize                           *)
(***************************************************************************)
\* The topics a caller passes, the texts the two task runners return and the
\* error an external capability raises.
Topics == {"quantum computing", "how to build Malware"}
ResearchTexts == {"Qubits hold superposed states; gates act on them. See https://example.org/qc"}
SummaryTexts == {"Qubits keep superposed states. Source: https://example.org/qc",
                 "Qubits are useful."}
Errors == {"capability unavailable"}

\* datetime.strftime("%Y%m%d_%H%M%S") of the clock's tick t: the ticks are
\* the seconds that follow 2026-11-05 03:00:00.
strftime(t) ==
    "20261105_0300" \o CharAt(Digits, (t \div 10) + 1) \o CharAt(Digits, (t % 10) + 1)

\* The session id a run entered at entered_at reads from self.session_id,
\* which __init__ set when the orchestrator was constructed.
session_id_at(constructed_at, entered_at) == strftime(constructed_at)

\* self.session_id = datetime.now().strftime("%Y%m%d_%H%M%S"), of the
\* orchestrator constructed at tick 0.
session_id == strftime(0)

\* text[:n]
Prefix(text, n) == SubSeq(text, 1, IF Len(text) < n THEN Len(text) ELSE n)

\* text.replace(' ', '_')
RECURSIVE replace_spaces(_)
replace_spaces(text) ==
    IF Len(text) = 0 THEN ""
    ELSE (IF CharAt(text, 1) = " " THEN "_" ELSE CharAt(text, 1))
         \o replace_spaces(SubSeq(text, 2, Len(text)))

\* f"{stage}_{self.session_id}_{topic[:30].replace(' ', '_')}.txt"
stage_filename(stage, topic) ==
    stage \o "_" \o session_id \o "_" \o replace_spaces(Prefix(topic, 30)) \o ".txt"

\* Mutant of basename: the directory part is kept.
basename_keeping_directories(path) == path

\* os.path.basename
RECURSIVE basename(_)
basename(path) ==
    IF \E i \in 1..Len(path) : CharAt(path, i) = "/"
    THEN basename(SubSeq(path, (CHOOSE i \in 1..Len(path) : CharAt(path, i) = "/") + 1,
                         Len(path)))
    ELSE path

\* The entry memory.store_memory receives.
memory_entry(type, label, topic, output) ==
    [content |-> label \o topic \o ": " \o Prefix(output, 500),
     type |-> type, topic |-> topic, session_id |-> session_id]


\* No admitted run has returned yet.
NoRun == [started_at |-> -1, session_id |-> ""]

NoVerdict == [is_valid |-> TRUE, error |-> "n/a"]
NoResult == [success |-> FALSE, error |-> "n/a"]

Idle == [pc |-> "idle", topic |-> "", save_results |-> FALSE,
         input |-> NoVerdict, allowed |-> "n/a", admission |-> NoCall,
         prior_admits |-> 0, research_output |-> "", summary_output |-> "",
         output |-> NoVerdict, invocations |-> 0, stored |-> <<>>, written |-> <<>>,
         error |-> "", raised_at |-> "", outcome |-> "", result |-> NoResult,
         history_at_entry |-> <<>>, last_at_entry |-> NoCall,
         started_at |-> -1, logged |-> <<>>, audit_at_entry |-> 0,
         quality |-> NoVerdict, session_id |-> ""]

\* validate_input and validate_output on the model's texts, and the file
\* names and memory excerpts of the model's topics, computed once.
input_verdict == [topic \in Topics |-> validate_input(topic)]
output_verdict == [text \in SummaryTexts |-> validate_output(text)]
memory_entries ==
    [type \in {"research", "summary"} |->
        [topic \in Topics |->
            [output \in ResearchTexts \cup SummaryTexts |->
                memory_entry(type,
                             IF type = "research" THEN "Research on " ELSE "Summary of ",
                             topic, output)]]]
file_names ==
    [stage \in {"research", "summary"} |->
        [topic \in Topics |-> basename(stage_filename(stage, topic))]]

\* Mutant of admission_identity: an identity that changes from run to run.
admission_identity_per_run(n) == IF n % 2 = 0 THEN "orchestrator" ELSE "Orchestrator"

\* The identity the run is admitted under: the literal "orchestrator".
admission_identity(n) == ORCHESTRATOR

\* Mutant of MakesAdmissionCall: the limiter is asked before the verdict on
\* the topic is looked at.
MakesAdmissionCallAlways(is_valid) == TRUE

\* check_rate_limit is reached only when validate_input accepted the topic.
MakesAdmissionCall(is_valid) == is_valid

\* Mutant of PassesAdmission: a denial does not stop the run.
PassesAdmissionAnyway(allowed) == TRUE

\* `if not is_allowed: return {...}`
PassesAdmission(allowed) == allowed

\* Mutant of StepAfter: the research excerpt is stored as soon as Stage 1
\* has returned.
StepAfterStoringEarly(pc, save_results) ==
    CASE pc = "create_crew"     -> "stage1"
      [] pc = "stage1"          -> "store_research"
      [] pc = "store_research"  -> "stage2"
      [] pc = "stage2"          -> "validate_output"
      [] pc = "validate_output" -> "store_summary"
      [] pc = "store_summary"   -> IF save_results THEN "save_research" ELSE "complete"
      [] pc = "save_research"   -> "save_summary"
      [] pc = "save_summary"    -> "complete"

\* Mutant of StepAfter: output validation is repeated without end.
StepAfterRevalidating(pc, save_results) ==
    CASE pc = "create_crew"     -> "stage1"
      [] pc = "stage1"          -> "stage2"
      [] pc = "stage2"          -> "validate_output"
      [] pc = "validate_output" -> "validate_output"
      [] pc = "store_research"  -> "store_summary"
      [] pc = "store_summary"   -> IF save_results THEN "save_research" ELSE "complete"
      [] pc = "save_research"   -> "save_summary"
      [] pc = "save_summary"    -> "complete"

\* Mutant of StepAfter: the summary task comes first in the crew's task list.
StepAfterSummaryFirst(pc, save_results) ==
    CASE pc = "create_crew"     -> "stage2"
      [] pc = "stage2"          -> "stage1"
      [] pc = "stage1"          -> "validate_output"
      [] pc = "validate_output" -> "store_research"
      [] pc = "store_research"  -> "store_summary"
      [] pc = "store_summary"   -> IF save_results THEN "save_research" ELSE "complete"
      [] pc = "save_research"   -> "save_summary"
      [] pc = "save_summary"    -> "complete"

\* The statement order of the try block; crew.kickoff() runs the tasks in
\* the order of tasks=[research_task, summary_task] (Process.sequential).
StepAfter(pc, save_results) ==
    CASE pc = "create_crew"     -> "stage1"
      [] pc = "stage1"          -> "stage2"
      [] pc = "stage2"          -> "validate_output"
      [] pc = "validate_output" -> "store_research"
      [] pc = "store_research"  -> "store_summary"
      [] pc = "store_summary"   -> IF save_results THEN "save_research" ELSE "complete"
      [] pc = "save_research"   -> "save_summary"
      [] pc = "save_summary"    -> "complete"

\* Mutant of OnOutputVerdict: a rejected summary aborts the run.
OnOutputVerdictEnforced(is_valid, next) == IF is_valid THEN next ELSE "except"

\* `if not is_valid: pass`
OnOutputVerdict(is_valid, next) == next

\* Number of admitted runs less than rate_window old at time t.
RunAdmitsInWindow(t) ==
    Cardinality({i \in 1..Len(run_admits) : run_admits[i] > t - rate_window})

\* Mutant of KeptOnFailure: the failed run's admission is taken back.
RefundedOnFailure(history, admission) ==
    SelectSeq(history, LAMBDA op : ~(/\ op.agent_id = admission.agent_id
                                     /\ op.timestamp = admission.timestamp))

\* The engine's operation_history after the except clause: the clause logs and
\* returns, and has no statement that touches the history.
KeptOnFailure(history, admission) == history

\* Mutant of Handler: the try block ends where crew.kickoff() returns.
HandlerUntilKickoff(pc) ==
    IF pc \in {"create_crew", "stage1", "stage2"} THEN "except" ELSE "raised"

\* Where an error raised at step pc takes control: every step from the
\* creation of the tasks to the success return lies inside the try block.
Handler(pc) ==
    IF pc \in {"create_crew", "stage1", "stage2", "validate_output", "store_research",
               "store_summary", "save_research", "save_summary", "complete"}
    THEN "except"
    ELSE "raised"

\* An external capability raises: control passes to the handler.
\* `reached` is the run with what the step did before raising.
Raise(reached, e) ==
    run' = [reached EXCEPT !.pc = Handler(run.pc), !.error = e, !.raised_at = run.pc]

\* The step succeeded; `changed` is the run with the step's effect.
Advance(changed) ==
    run' = [changed EXCEPT !.pc = StepAfter(run.pc, run.save_results)]

\* self.guardrails.log_operation("orchestrator", "research_and_summarize",
\* status, metadata): the engine's log afterwards, and the run with the call
\* noted in `logged`.
LogCall(reached, status, metadata) ==
    /\ audit_log' = log_operation(audit_log, now, ORCHESTRATOR,
                                  "research_and_summarize", status, metadata)
    /\ run' = [reached EXCEPT
                 !.logged = Append(@, log_entry(now, ORCHESTRATOR,
                                                "research_and_summarize",
                                                status, metadata))]

Threads == 1..NumThreads
\* A thread outside get_guardrails: `held` is the instance its last call
\* returned (0: none yet), `gets` the number of calls it has made.
NotCalling == [pc |-> "ready", held |-> 0, gets |-> 0]
Ready == [pc |-> "ready", agent_id |-> "", current_time |-> 0, pruned |-> <<>>]

(***************************************************************************)
(* SafetyGuardrails.sanitize_url                                           *)
(***************************************************************************)
\* re.match(r'^https?://[^\s<>\"]+$', url): a scheme, then one or more
\* characters none of which is whitespace, '<', '>' or '"', up to the end of
\* the url; `$` also matches just before a newline that ends the url.
MatchesUrlPattern(url) ==
    \E scheme \in {"http://", "https://"} : \E stop \in {Len(url), Len(url) - 1} :
        /\ OccursAt(url, scheme, 1)
        /\ stop > Len(scheme)
        /\ \A i \in (Len(scheme) + 1)..stop :
              ~IsSpace(CharAt(url, i)) /\ CharAt(url, i) \notin {"<", ">", "\""}
        /\ stop < Len(url) => CharAt(url, Len(url)) = "\n"

suspicious == <<"javascript:", "data:", "file:", "ftp:">>

\* The first pattern of the suspicious list, in list order, that the lowered
\* url contains; 0 if none.
FirstSuspicious(url) ==
    LET hits == {k \in 1..Len(suspicious) : Contains(lower(url), suspicious[k])}
    IN  IF hits = {} THEN 0 ELSE CHOOSE k \in hits : \A h \in hits : k <= h

\* sanitize_url(url): the pair (is_valid, sanitized url or reason).
sanitize_url(url) ==
    IF ~MatchesUrlPattern(url) THEN <<FALSE, "Invalid URL format">>
    ELSE IF FirstSuspicious(url) # 0
    THEN <<FALSE, "Blocked URL protocol: " \o suspicious[FirstSuspicious(url)]>>
    ELSE <<TRUE, strip(url)>>

(***************************************************************************)
(* The cl100k_base encoder, count_tokens and truncate_to_tokens            *)
(***************************************************************************)
\* The character classes of the encoder's split pattern: \p{L}, \p{N},
\* [\r\n], and [^\s\p{L}\p{N}].
IsLetter(c) == \E k \in 1..Len(LowerCase) : c = CharAt(LowerCase, k) \/ c = CharAt(UpperCase, k)
IsDigit(c) == \E k \in 1..Len(Digits) : c = CharAt(Digits, k)
IsNewline(c) == c \in {"\r", "\n"}
IsOther(c) == ~IsSpace(c) /\ ~IsLetter(c) /\ ~IsDigit(c)

\* The character is of the named class.
InClass(c, class) ==
    CASE class = "letter"  -> IsLetter(c)
      [] class = "digit"   -> IsDigit(c)
      [] class = "newline" -> IsNewline(c)
      [] class = "space"   -> IsSpace(c)
      [] class = "other"   -> IsOther(c)

\* The length of the longest run of characters of one class from position i.
RunLen(text, i, class) ==
    CHOOSE n \in 0..(Len(text) - i + 1) :
        /\ \A j \in i..(i + n - 1) : InClass(CharAt(text, j), class)
        /\ i + n <= Len(text) => ~InClass(CharAt(text, i + n), class)

\* The length of the piece the split pattern matches at position i:
\*   (?i:'s|'t|'re|'ve|'m|'ll|'d) | [^\r\n\p{L}\p{N}]?\p{L}+ | \p{N}{1,3}
\*   |  ?[^\s\p{L}\p{N}]+[\r\n]* | \s*[\r\n]+ | \s+(?!\S) | \s+
\* The first alternative that matches wins.
PieceLen(text, i) ==
    LET c      == CharAt(text, i)
        d      == IF i < Len(text) THEN CharAt(text, i + 1) ELSE ""
        spaces == RunLen(text, i, "space")
        breaks == {j \in i..(i + spaces - 1) : IsNewline(CharAt(text, j))}
    IN  IF \E t \in {"'s", "'t", "'re", "'ve", "'m", "'ll", "'d"} :
              OccursAt(lower(SubSeq(text, i, Len(text))), t, 1)
        THEN Len(CHOOSE t \in {"'s", "'t", "'re", "'ve", "'m", "'ll", "'d"} :
                    OccursAt(lower(SubSeq(text, i, Len(text))), t, 1))
        ELSE IF IsLetter(c) THEN RunLen(text, i, "letter")
        ELSE IF ~IsNewline(c) /\ ~IsDigit(c) /\ d # "" /\ IsLetter(d)
        THEN 1 + RunLen(text, i + 1, "letter")
        ELSE IF IsDigit(c)
        THEN IF RunLen(text, i, "digit") > 3 THEN 3 ELSE RunLen(text, i, "digit")
        ELSE IF IsOther(c)
        THEN RunLen(text, i, "other")
               + RunLen(text, i + RunLen(text, i, "other"), "newline")
        ELSE IF c = " " /\ d # "" /\ IsOther(d)
        THEN 1 + RunLen(text, i + 1, "other")
               + RunLen(text, i + 1 + RunLen(text, i + 1, "other"), "newline")
        ELSE IF breaks # {}
        THEN (CHOOSE j \in breaks : \A k \in breaks : k <= j) - i + 1
        ELSE IF i + spaces > Len(text) THEN spaces
        ELSE IF spaces >= 2 THEN spaces - 1
        ELSE spaces

\* The pieces the split pattern cuts the text into, from position i on.
RECURSIVE PiecesFrom(_, _)
PiecesFrom(text, i) ==
    IF i > Len(text) THEN <<>>
    ELSE <<SubSeq(text, i, i + PieceLen(text, i) - 1)>>
            \o PiecesFrom(text, i + PieceLen(text, i))

\* Entries of the cl100k_base vocabulary among the pieces of the model's
\* texts; every single character is an entry too.  A token is written as the
\* text it decodes to.
Vocabulary == {"hello", "Hello", " world", " foo", " bar", "  ", "   ", "...", " ...",
               "...."}

\* The byte-pair encoding of one piece: a piece that is an entry is one token;
\* any other piece of the model's texts is merged no further than its
\* characters.
RECURSIVE Characters(_)
Characters(piece) ==
    IF Len(piece) = 0 THEN <<>>
    ELSE <<CharAt(piece, 1)>> \o Characters(SubSeq(piece, 2, Len(piece)))
byte_pair_encode(piece) ==
    IF piece \in Vocabulary THEN <<piece>> ELSE Characters(piece)

\* self.encoder.encode(text)
RECURSIVE EncodePieces(_)
EncodePieces(pieces) ==
    IF Len(pieces) = 0 THEN <<>>
    ELSE byte_pair_encode(Head(pieces)) \o EncodePieces(Tail(pieces))
encode(text) == EncodePieces(PiecesFrom(text, 1))

\* self.encoder.decode(tokens)
RECURSIVE decode(_)
decode(tokens) ==
    IF Len(tokens) = 0 THEN "" ELSE Head(tokens) \o decode(Tail(tokens))

\* SafetyGuardrails.max_tokens
max_tokens == 4000

\* SafetyGuardrails.count_tokens
count_tokens(text) == Len(encode(text))

\* Mutant of truncate_to_tokens: one token fewer is kept, to leave room for
\* the marker.
truncate_to_tokens_with_room(text, n) ==
    LET limit  == IF n = 0 THEN max_tokens ELSE n
        tokens == encode(text)
    IN  IF Len(tokens) <= limit THEN text
        ELSE decode(SubSeq(tokens, 1, limit - 1)) \o "..."

\* SafetyGuardrails.truncate_to_tokens(text, n); n = 0 stands for the default.
truncate_to_tokens(text, n) ==
    LET limit  == IF n = 0 THEN max_tokens ELSE n
        tokens == encode(text)
    IN  IF Len(tokens) <= limit THEN text
        ELSE decode(SubSeq(tokens, 1, limit)) \o "..."

(***************************************************************************)
(* WebSearchTool (src/src/tools/web_search_tool.py)                        *)
(***************************************************************************)
\* The seconds a request timestamp is kept: `current_time - ts < 60`.
web_window == 60

\* WebSearchTool(rate_limit=10), the default the search_web tool takes.
default_rate_limit == 10

\* Mutant of KeepRecent: every timestamp but the newest is dropped.
KeepNewest(timestamps, current_time) ==
    IF Len(timestamps) = 0 THEN <<>> ELSE <<timestamps[Len(timestamps)]>>

\* [ts for ts in self.request_timestamps if current_time - ts < 60]
RECURSIVE KeepRecent(_, _)
KeepRecent(timestamps, current_time) ==
    IF Len(timestamps) = 0 THEN <<>>
    ELSE IF current_time - Head(timestamps) < web_window
    THEN <<Head(timestamps)>> \o KeepRecent(Tail(timestamps), current_time)
    ELSE KeepRecent(Tail(timestamps), current_time)

\* WebSearchTool._check_rate_limit at current_time on an instance with the
\* given request_timestamps and rate_limit: what it returns and the
\* request_timestamps it leaves.
_check_rate_limit(timestamps, current_time, limit) ==
    LET kept == KeepRecent(timestamps, current_time)
    IN  IF Len(kept) >= limit
        THEN [returned |-> FALSE, request_timestamps |-> kept]
        ELSE [returned |-> TRUE, request_timestamps |-> Append(kept, current_time)]

\* WebSearchTool.search: raises when _check_rate_limit returns False;
\* otherwise the search is performed (an error of the search itself is
\* swallowed and leaves an empty result list).
search(timestamps, current_time, limit) ==
    LET checked == _check_rate_limit(timestamps, current_time, limit)
    IN  [raised |-> IF checked.returned THEN ""
                    ELSE "Rate limit exceeded. Please wait before making more requests.",
         searched |-> checked.returned,
         request_timestamps |-> checked.request_timestamps]

\* search_web_tool(query): a WebSearchTool constructed for the call, then
\* search on it.
search_web_tool(current_time) == search(<<>>, current_time, default_rate_limit)

\* No web search call made yet.
NoWebCall == [op |-> "none", time |-> -1, before |-> <<>>, after |-> <<>>,
              admitted_before |-> <<>>, returned |-> FALSE, raised |-> ""]

(***************************************************************************)
(* FileSystemTool (src/src/tools/file_tool.py), on a POSIX file system     *)
(***************************************************************************)
\* FileSystemTool(base_directory="./data/research"), and the directory the
\* process runs in.
base_directory == "./data/research"
cwd == "/app"

\* str.startswith
startswith(text, prefix) == OccursAt(text, prefix, 1)

\* path.split("/")
RECURSIVE SplitPath(_)
SplitPath(path) ==
    IF \E i \in 1..Len(path) : CharAt(path, i) = "/"
    THEN LET i == CHOOSE k \in 1..Len(path) :
                    /\ CharAt(path, k) = "/"
                    /\ \A j \in 1..(k - 1) : CharAt(path, j) # "/"
         IN  <<SubSeq(path, 1, i - 1)>> \o SplitPath(SubSeq(path, i + 1, Len(path)))
    ELSE <<path>>

\* "/".join(comps)
RECURSIVE JoinPath(_)
JoinPath(comps) ==
    IF Len(comps) = 0 THEN ""
    ELSE IF Len(comps) = 1 THEN comps[1]
    ELSE comps[1] \o "/" \o JoinPath(Tail(comps))

\* The loop of os.path.normpath: empty and "." components are dropped, ".."
\* removes the component before it (at the root it is dropped).
RECURSIVE NormComps(_, _, _)
NormComps(comps, new_comps, rooted) ==
    IF Len(comps) = 0 THEN new_comps
    ELSE LET comp == Head(comps)
             rest == Tail(comps)
         IN  IF comp \in {"", "."}
             THEN NormComps(rest, new_comps, rooted)
             ELSE IF \/ comp # ".."
                     \/ (~rooted /\ Len(new_comps) = 0)
                     \/ (Len(new_comps) > 0 /\ new_comps[Len(new_comps)] = "..")
             THEN NormComps(rest, Append(new_comps, comp), rooted)
             ELSE IF Len(new_comps) > 0
             THEN NormComps(rest, SubSeq(new_comps, 1, Len(new_comps) - 1), rooted)
             ELSE NormComps(rest, new_comps, rooted)

\* os.path.normpath
normpath(path) ==
    LET rooted == startswith(path, "/")
        joined == JoinPath(NormComps(SplitPath(path), <<>>, rooted))
    IN  IF rooted THEN "/" \o joined
        ELSE IF joined = "" THEN "." ELSE joined

\* os.path.join(a, b)
join(a, b) ==
    IF startswith(b, "/") THEN b
    ELSE IF a = "" \/ CharAt(a, Len(a)) = "/" THEN a \o b
    ELSE a \o "/" \o b

\* os.path.abspath
abspath(path) ==
    IF startswith(path, "/") THEN normpath(path) ELSE normpath(join(cwd, path))

\* FileSystemTool._get_safe_path: the path, or ValueError("Invalid file path").
_get_safe_path(filename) ==
    LET full_path == join(base_directory, basename(filename))
    IN  IF ~startswith(abspath(full_path), abspath(base_directory))
        THEN [raised |-> "ValueError", path |-> ""]
        ELSE [raised |-> "", path |-> full_path]

\* What open(..., 'w', encoding='utf-8') writes for the text: "\n" becomes
\* os.linesep, which is "\n".
written_text(content) == content

\* What open(..., 'r', encoding='utf-8') returns for the file's text, by
\* universal newlines: "\r\n" and "\r" are given as "\n".
RECURSIVE read_text(_)
read_text(stored) ==
    IF Len(stored) = 0 THEN ""
    ELSE IF OccursAt(stored, "\r\n", 1)
    THEN "\n" \o read_text(SubSeq(stored, 3, Len(stored)))
    ELSE IF CharAt(stored, 1) = "\r"
    THEN "\n" \o read_text(SubSeq(stored, 2, Len(stored)))
    ELSE CharAt(stored, 1) \o read_text(SubSeq(stored, 2, Len(stored)))

\* The file system before the tool's first call: one file outside the base
\* directory, none inside.
InitialFiles == [p \in {"/etc/passwd"} |-> "root:x:0:0"]

\* No FileSystemTool call made yet.
NoFileOp == [op |-> "none", filename |-> "", content |-> "", raised |-> "",
             returned |-> "", opened |-> ""]

\* No guardrail call made yet.
NoGuardCall == [fn |-> "none"]

\* The directories of the file system: the base directory, which __init__
\* creates, its ancestors and /etc.
Directories == {"/", "/app", "/app/data", "/app/data/research", "/etc"}

\* The filenames and contents callers pass.
Filenames == {"notes.txt", "sub/notes.txt", "../../etc/passwd", "/etc/passwd",
              "../research2/x.txt", "..", ""}
Contents == {"Quantum report", "line one\nline two", "line one\r\nline two"}

\* _get_safe_path of every filename, with the absolute path of the result,
\* and what a read returns for every text written: computed once.
safe_path == [f \in Filenames |-> _get_safe_path(f)]
target_path == [f \in Filenames |-> abspath(safe_path[f].path)]
as_read == [t \in {written_text(c) : c \in Contents} |-> read_text(t)]

\* FileSystemTool.save_research(content, filename) on the file system fs (a
\* function from absolute paths of regular files to their text).
save_research(fs, content, filename) ==
    LET safe   == safe_path[filename]
        target == target_path[filename]
    IN  IF safe.raised # ""
        THEN [fs |-> fs, raised |-> safe.raised, returned |-> "", opened |-> ""]
        ELSE IF target \in Directories
        THEN [fs |-> fs, raised |-> "IsADirectoryError", returned |-> "", opened |-> ""]
        ELSE [fs |-> [q \in DOMAIN fs \cup {target} |->
                        IF q = target THEN written_text(content) ELSE fs[q]],
              raised |-> "", returned |-> safe.path, opened |-> target]

\* FileSystemTool.load_research(filename)
load_research(fs, filename) ==
    LET safe   == safe_path[filename]
        target == target_path[filename]
    IN  IF safe.raised # ""
        THEN [fs |-> fs, raised |-> safe.raised, returned |-> "", opened |-> ""]
        ELSE IF target \notin DOMAIN fs \cup Directories
        THEN [fs |-> fs, raised |-> "FileNotFoundError", returned |-> "", opened |-> ""]
        ELSE IF target \in Directories
        THEN [fs |-> fs, raised |-> "IsADirectoryError", returned |-> "", opened |-> ""]
        ELSE [fs |-> fs, raised |-> "", returned |-> as_read[fs[target]],
              opened |-> target]

(***************************************************************************)
(* Actions                                                                 *)
(***************************************************************************)
Init ==
    /\ now = 0
    /\ rate_limit = Quota
    /\ rate_window = Window
    /\ operation_history = <<>>
    /\ admitted = <<>>
    /\ solo = [a \in AgentIds |-> <<>>]
    /\ last = NoCall
    /\ ncalls = 0
    /\ run = Idle
    /\ runs_started = 0
    /\ run_admits = <<>>
    /\ threads = [t \in Threads |-> Ready]
    /\ audit_log = <<>>
    /\ guardrails_instance = 1
    /\ constructed = 1
    /\ callers = [c \in Threads |-> NotCalling]
    /\ prev = NoRun
    /\ files = InitialFiles
    /\ saved = <<>>
    /\ fs_last = NoFileOp
    /\ saved_as = <<>>
    /\ request_timestamps = <<>>
    /\ web_admitted = <<>>
    /\ web_last = NoWebCall
    /\ web_calls = 0
    /\ searches = <<>>
    /\ call = NoGuardCall

\* Time passes: between runs, and while the task runners work.  (The clock
\* is read by check_rate_limit and by the success return only, so a tick at
\* any other step of a run is the same as one taken during crew.kickoff().)
Tick ==
    /\ now < MaxTime
    /\ run.pc \in {"idle", "stage1"}
    /\ now' = now + 1
    /\ UNCHANGED <<config, units, audit_log, singleton, prev, threads, limiter, ncalls, run, runs_started, run_admits>>

\* guardrails.check_rate_limit(agent_id) by a caller other than the
\* orchestrator, while no run is in progress.
DirectCall ==
    /\ run.pc = "idle"
    /\ ncalls < MaxCalls
    /\ \E agent_id \in DirectIds : RateLimitCall(agent_id)
    /\ ncalls' = ncalls + 1
    /\ UNCHANGED <<now, config, units, audit_log, singleton, prev, threads, run, runs_started, run_admits>>

\* research_and_summarize(topic, save_results=...) up to the try block:
\* validate_input, check_rate_limit and the two early returns.
Enter ==
    /\ run.pc = "idle"
    /\ runs_started < MaxRuns
    /\ \E topic \in Topics, save_results \in BOOLEAN :
        LET input    == input_verdict[topic]
            called   == MakesAdmissionCall(input.is_valid)
            agent_id == admission_identity(runs_started)
            verdict  == check_rate_limit(operation_history, agent_id, now,
                                         rate_limit, rate_window)
            passes   == PassesAdmission(verdict.allowed)
            entered  == [Idle EXCEPT
                           !.topic = topic, !.save_results = save_results,
                           !.input = input, !.started_at = now,
                           !.audit_at_entry = Len(audit_log),
                           !.session_id = session_id_at(0, now),
                           !.history_at_entry = operation_history,
                           !.last_at_entry = last,
                           !.prior_admits = RunAdmitsInWindow(now)]
        IN  /\ IF called THEN RateLimitCall(agent_id) ELSE UNCHANGED limiter
            /\ run_admits' = IF called /\ verdict.allowed
                             THEN Append(run_admits, now) ELSE run_admits
            /\ run' =
                 IF ~input.is_valid
                 THEN [entered EXCEPT
                         !.pc = "returned", !.outcome = "InputRejected",
                         !.result = [success |-> FALSE,
                                     error |-> "Input validation failed: " \o input.error,
                                     topic |-> topic]]
                 ELSE IF ~passes
                 THEN [entered EXCEPT
                         !.pc = "returned", !.outcome = "AdmissionDenied",
                         !.allowed = "denied", !.admission = last',
                         !.result = [success |-> FALSE,
                                     error |-> "Rate limit exceeded. Please wait before making more requests.",
                                     topic |-> topic]]
                 ELSE [entered EXCEPT
                         !.pc = "create_crew", !.admission = last',
                         !.allowed = IF verdict.allowed THEN "admitted" ELSE "denied"]
    /\ runs_started' = runs_started + 1
    /\ UNCHANGED <<now, config, units, audit_log, singleton, prev, threads, ncalls>>

\* create_research_task, create_summary_task, Crew(...) and the `started`
\* log_operation.
CreateCrew ==
    /\ run.pc = "create_crew"
    /\ \/ LogCall([run EXCEPT !.pc = StepAfter(run.pc, run.save_results)], "started",
                   [topic |-> run.topic, session_id |-> session_id])
       \/ /\ \E e \in Errors : Raise(run, e)
          /\ UNCHANGED audit_log
    /\ UNCHANGED <<now, config, units, singleton, prev, threads, limiter, ncalls, runs_started, run_admits>>


\* crew.kickoff(), first task: the research task runner.
Stage1 ==
    /\ run.pc = "stage1"
    /\ \/ \E text \in ResearchTexts :
            Advance([run EXCEPT !.invocations = @ + 1, !.research_output = text])
       \/ \E e \in Errors :
            Raise([run EXCEPT !.invocations = @ + 1], e)
    /\ UNCHANGED <<now, config, units, audit_log, singleton, prev, threads, limiter, ncalls, runs_started, run_admits>>

\* crew.kickoff(), second task: the summary task runner.
Stage2 ==
    /\ run.pc = "stage2"
    /\ \/ \E text \in SummaryTexts :
            Advance([run EXCEPT !.invocations = @ + 1, !.summary_output = text])
       \/ \E e \in Errors :
            Raise([run EXCEPT !.invocations = @ + 1], e)
    /\ UNCHANGED <<now, config, units, audit_log, singleton, prev, threads, limiter, ncalls, runs_started, run_admits>>

\* is_valid, error = self.guardrails.validate_output(summary_output)
ValidateOutput ==
    /\ run.pc = "validate_output"
    /\ LET output == output_verdict[run.summary_output]
           next   == OnOutputVerdict(output.is_valid,
                                     StepAfter(run.pc, run.save_results))
       IN  run' = [run EXCEPT !.output = output, !.pc = next,
                              !.raised_at = IF next = "except" THEN run.pc ELSE @,
                              !.error = IF next = "except" THEN output.error ELSE @]
    /\ UNCHANGED <<now, config, units, audit_log, singleton, prev, threads, limiter, ncalls, runs_started, run_admits>>

\* self.memory.store_memory(f"Research on {topic}: {research_output[:500]}", ...)
StoreResearch ==
    /\ run.pc = "store_research"
    /\ \/ Advance([run EXCEPT !.stored = Append(@,
              memory_entries["research"][run.topic][run.research_output])])
       \/ \E e \in Errors : Raise(run, e)
    /\ UNCHANGED <<now, config, units, audit_log, singleton, prev, threads, limiter, ncalls, runs_started, run_admits>>

\* self.memory.store_memory(f"Summary of {topic}: {summary_output[:500]}", ...)
StoreSummary ==
    /\ run.pc = "store_summary"
    /\ \/ Advance([run EXCEPT !.stored = Append(@,
              memory_entries["summary"][run.topic][run.summary_output])])
       \/ \E e \in Errors : Raise(run, e)
    /\ UNCHANGED <<now, config, units, audit_log, singleton, prev, threads, limiter, ncalls, runs_started, run_admits>>

\* self.file_system.save_research(research_output, research_filename)
SaveResearch ==
    /\ run.pc = "save_research"
    /\ \/ Advance([run EXCEPT !.written = Append(@,
              [filename |-> file_names["research"][run.topic],
               content |-> run.research_output])])
       \/ \E e \in Errors : Raise(run, e)
    /\ UNCHANGED <<now, config, units, audit_log, singleton, prev, threads, limiter, ncalls, runs_started, run_admits>>

\* self.file_system.save_research(summary_output, summary_filename)
SaveSummary ==
    /\ run.pc = "save_summary"
    /\ \/ Advance([run EXCEPT !.written = Append(@,
              [filename |-> file_names["summary"][run.topic],
               content |-> run.summary_output])])
       \/ \E e \in Errors : Raise(run, e)
    /\ UNCHANGED <<now, config, units, audit_log, singleton, prev, threads, limiter, ncalls, runs_started, run_admits>>

\* The `completed` log_operation and the success return.
Complete ==
    /\ run.pc = "complete"
    /\ LogCall([run EXCEPT
                 !.pc = "returned", !.outcome = "Done",
                 !.result = [success |-> TRUE, topic |-> run.topic,
                             research |-> run.research_output,
                             summary |-> run.summary_output,
                             session_id |-> session_id, timestamp |-> now]],
               "completed", [topic |-> run.topic, session_id |-> session_id])
    /\ UNCHANGED <<now, config, units, singleton, prev, threads, limiter, ncalls, runs_started, run_admits>>

\* except Exception as e: the `failed` log_operation and the failure return.
Except ==
    /\ run.pc = "except"
    /\ LogCall([run EXCEPT
                 !.pc = "returned", !.outcome = "ExecutionError",
                 !.result = [success |-> FALSE,
                             error |-> "Error during execution: " \o run.error,
                             topic |-> run.topic, session_id |-> session_id]],
               "failed", [topic |-> run.topic, error |-> run.error])
    /\ operation_history' = KeptOnFailure(operation_history, run.admission)
    /\ UNCHANGED <<now, config, units, singleton, prev, threads, admitted, solo, last,
                   ncalls, runs_started, run_admits>>

\* The caller has the result (or the error, had one left the call); the
\* orchestrator is free for the next run.
Finish ==
    /\ run.pc \in {"returned", "raised"}
    /\ run' = Idle
    /\ prev' = IF run.allowed = "admitted"
               THEN [started_at |-> run.started_at, session_id |-> run.session_id]
               ELSE prev
    /\ UNCHANGED <<now, config, units, audit_log, singleton, threads, limiter, ncalls, runs_started, run_admits>>

Next ==
    \/ Tick
    \/ DirectCall
    \/ Enter
    \/ CreateCrew
    \/ Stage1
    \/ Stage2
    \/ ValidateOutput
    \/ StoreResearch
    \/ StoreSummary
    \/ SaveResearch
    \/ SaveSummary
    \/ Complete
    \/ Except
    \/ Finish

Spec == Init /\ [][Next]_vars

\* A step of the run in progress.  The thread that executes
\* research_and_summarize keeps running, and every call it makes to a task
\* runner, the memory capability or the file capability returns or raises.
RunStep ==
    \/ CreateCrew
    \/ Stage1
    \/ Stage2
    \/ ValidateOutput
    \/ StoreResearch
    \/ StoreSummary
    \/ SaveResearch
    \/ SaveSummary
    \/ Complete
    \/ Except

LiveSpec == Init /\ [][Next]_vars /\ WF_vars(RunStep)

(***************************************************************************)
(* ConcSpec: check_rate_limit called from several threads.  The method     *)
(* takes no lock, so the threads interleave between its statements.        *)
(***************************************************************************)
CallsInFlight == Cardinality({t \in Threads : threads[t].pc # "ready"})

\* current_time = datetime.now(); cutoff_time = current_time - timedelta(...)
ThreadBegin(t) ==
    /\ threads[t].pc = "ready"
    /\ ncalls + CallsInFlight < MaxThreadCalls
    /\ \E agent_id \in AgentIds :
          threads' = [threads EXCEPT ![t] =
              [Ready EXCEPT !.pc = "filter", !.agent_id = agent_id, !.current_time = now]]
    /\ UNCHANGED <<now, config, units, audit_log, singleton, prev, limiter, ncalls, run, runs_started, run_admits>>

\* The list comprehension over self.operation_history is evaluated ...
ThreadFilter(t) ==
    /\ threads[t].pc = "filter"
    /\ threads' = [threads EXCEPT ![t] =
          [threads[t] EXCEPT
              !.pc = "assign",
              !.pruned = RemoveOld(operation_history, threads[t].current_time,
                                   rate_window)]]
    /\ UNCHANGED <<now, config, units, audit_log, singleton, prev, limiter, ncalls, run, runs_started, run_admits>>

\* ... and its value is bound to self.operation_history.
ThreadAssign(t) ==
    /\ threads[t].pc = "assign"
    /\ operation_history' = threads[t].pruned
    /\ threads' = [threads EXCEPT ![t] = [@ EXCEPT !.pc = "count"]]
    /\ UNCHANGED <<now, config, units, audit_log, singleton, prev, admitted, solo, last, ncalls, run, runs_started, run_admits>>

\* agent_operations = [...]; if len(agent_operations) >= self.rate_limit:
\* return False, ...
ThreadCount(t) ==
    /\ threads[t].pc = "count"
    /\ IF is_allowed(operation_history, threads[t].agent_id, rate_limit)
       THEN /\ threads' = [threads EXCEPT ![t] = [@ EXCEPT !.pc = "append"]]
            /\ ncalls' = ncalls
       ELSE /\ threads' = [threads EXCEPT ![t] = Ready]
            /\ ncalls' = ncalls + 1
    /\ UNCHANGED <<now, config, units, audit_log, singleton, prev, limiter, run, runs_started, run_admits>>

\* self.operation_history.append({...}); return True, None
ThreadAppend(t) ==
    /\ threads[t].pc = "append"
    /\ operation_history' = RecordOperation(operation_history, threads[t].agent_id,
                                            threads[t].current_time, TRUE)
    /\ admitted' = Append(admitted, [agent_id |-> threads[t].agent_id,
                                     timestamp |-> threads[t].current_time])
    /\ threads' = [threads EXCEPT ![t] = Ready]
    /\ ncalls' = ncalls + 1
    /\ UNCHANGED <<now, config, units, audit_log, singleton, prev, solo, last, run, runs_started, run_admits>>

NextConc ==
    \/ Tick
    \/ \E t \in Threads : ThreadBegin(t)
    \/ \E t \in Threads : ThreadFilter(t)
    \/ \E t \in Threads : ThreadAssign(t)
    \/ \E t \in Threads : ThreadCount(t)
    \/ \E t \in Threads : ThreadAppend(t)

ConcSpec == Init /\ [][NextConc]_vars

(***************************************************************************)
(* SingletonSpec: get_guardrails called from several threads while the     *)
(* global _guardrails_instance is still None.  The function holds no lock, *)
(* so a thread can be preempted between any two of its statements.         *)
(***************************************************************************)
InitFirstUse ==
    /\ now = 0
    /\ rate_limit = Quota
    /\ rate_window = Window
    /\ operation_history = <<>>
    /\ admitted = <<>>
    /\ solo = [a \in AgentIds |-> <<>>]
    /\ last = NoCall
    /\ ncalls = 0
    /\ run = Idle
    /\ runs_started = 0
    /\ run_admits = <<>>
    /\ threads = [t \in Threads |-> Ready]
    /\ audit_log = <<>>
    /\ guardrails_instance = 0
    /\ constructed = 0
    /\ callers = [c \in Threads |-> NotCalling]
    /\ prev = NoRun
    /\ files = InitialFiles
    /\ saved = <<>>
    /\ fs_last = NoFileOp
    /\ saved_as = <<>>
    /\ request_timestamps = <<>>
    /\ web_admitted = <<>>
    /\ web_last = NoWebCall
    /\ web_calls = 0
    /\ searches = <<>>
    /\ call = NoGuardCall

\* if _guardrails_instance is None:
GetGuardrailsTest(c) ==
    /\ callers[c].pc = "ready"
    /\ callers[c].gets < MaxGets
    /\ callers' = [callers EXCEPT
                     ![c].pc = IF guardrails_instance = 0 THEN "construct" ELSE "return",
                     ![c].gets = @ + 1]
    /\ UNCHANGED <<guardrails_instance, constructed>>
    /\ UNCHANGED <<now, config, units, audit_log, prev, threads, limiter, ncalls, run, runs_started, run_admits>>

\* SafetyGuardrails(): a new engine, with its own empty operation_history.
GetGuardrailsConstruct(c) ==
    /\ callers[c].pc = "construct"
    /\ constructed' = constructed + 1
    /\ callers' = [callers EXCEPT ![c].pc = "assign", ![c].held = constructed + 1]
    /\ UNCHANGED guardrails_instance
    /\ UNCHANGED <<now, config, units, audit_log, prev, threads, limiter, ncalls, run, runs_started, run_admits>>

\* _guardrails_instance = <the new engine>
GetGuardrailsAssign(c) ==
    /\ callers[c].pc = "assign"
    /\ guardrails_instance' = callers[c].held
    /\ callers' = [callers EXCEPT ![c].pc = "return"]
    /\ UNCHANGED constructed
    /\ UNCHANGED <<now, config, units, audit_log, prev, threads, limiter, ncalls, run, runs_started, run_admits>>

\* return _guardrails_instance
GetGuardrailsReturn(c) ==
    /\ callers[c].pc = "return"
    /\ callers' = [callers EXCEPT ![c].pc = "ready", ![c].held = guardrails_instance]
    /\ UNCHANGED <<guardrails_instance, constructed>>
    /\ UNCHANGED <<now, config, units, audit_log, prev, threads, limiter, ncalls, run, runs_started, run_admits>>

NextSingleton ==
    \E c \in Threads :
        \/ GetGuardrailsTest(c)
        \/ GetGuardrailsConstruct(c)
        \/ GetGuardrailsAssign(c)
        \/ GetGuardrailsReturn(c)

SingletonSpec == InitFirstUse /\ [][NextSingleton]_vars

(***************************************************************************)
(* FileSpec: calls of FileSystemTool.save_research and load_research       *)
(***************************************************************************)
\* Everything but the file system and its history.
pipeline == <<now, config, audit_log, singleton, prev, threads, limiter, ncalls, run,
              runs_started, run_admits>>

\* save_research(content, filename), with the filename given.
CallSaveResearch ==
    \E filename \in Filenames, content \in Contents :
        LET r == save_research(files, content, filename)
        IN  /\ files' = r.fs
            /\ saved' = IF r.raised = ""
                        THEN [q \in DOMAIN saved \cup {r.opened} |->
                                 IF q = r.opened THEN content ELSE saved[q]]
                        ELSE saved
            /\ fs_last' = [op |-> "save", filename |-> filename, content |-> content,
                           raised |-> r.raised, returned |-> r.returned,
                           opened |-> r.opened]
            /\ saved_as' = IF r.raised = ""
                           THEN [g \in DOMAIN saved_as \cup {filename} |->
                                    IF g = filename THEN content ELSE saved_as[g]]
                           ELSE saved_as
            /\ UNCHANGED <<pipeline, call, web>>

\* load_research(filename)
CallLoadResearch ==
    \E filename \in Filenames :
        LET r == load_research(files, filename)
        IN  /\ fs_last' = [op |-> "load", filename |-> filename, content |-> "",
                           raised |-> r.raised, returned |-> r.returned,
                           opened |-> r.opened]
            /\ UNCHANGED <<pipeline, call, files, saved, saved_as, web>>

NextFiles ==
    \/ CallSaveResearch
    \/ CallLoadResearch

FileSpec == Init /\ [][NextFiles]_vars

(***************************************************************************)
(* GuardSpec: one call of a pure SafetyGuardrails method on a given input  *)
(***************************************************************************)
MaxTokens == 3

\* x * n
RECURSIVE Repeat(_, _)
Repeat(x, n) ==
    IF n = 0 THEN ""
    ELSE IF n % 2 = 0 THEN LET h == Repeat(x, n \div 2) IN h \o h
    ELSE x \o Repeat(x, n - 1)

\* Contents given to validate_input: clean, with blocked terms in several
\* letter cases and places, with injection patterns, at and over the maximum
\* length, and with several of these at once.
InputContents ==
    <<"quantum computing",
      "How to create malware",
      "how to HACK a server",
      "a Keygen for MalWare",
      "xxPhIsHiNgxx",
      "use eval(x) here",
      "<script>alert(1)</script>",
      "hack with eval(x)",
      Repeat("x", max_content_length),
      Repeat("x", max_content_length + 1),
      "Crack " \o Repeat("x", max_content_length),
      Repeat("x", max_content_length) \o " eval(x)",
      "onload=alert(1) " \o Repeat("x", max_content_length) \o " PIRACY">>

\* Texts given to validate_output: trimmed lengths 49 and 50 with and without
\* surrounding whitespace, with and without a citation or a blocked term.
OutputContents ==
    <<"ok",
      "source: " \o Repeat("a", 41),
      "source: " \o Repeat("a", 42),
      "   source: " \o Repeat("a", 41) \o " \n\n ",
      "\t source: " \o Repeat("a", 42) \o "\n",
      Repeat(" ", 60),
      Repeat("a", 60),
      "see https://example.com/a " \o Repeat("a", 40),
      "illegal",
      "source: exploit " \o Repeat("a", 60)>>

\* Texts given to truncate_to_tokens.
Texts ==
    <<"hello",
      "hello world",
      "hello world foo",
      "hello world foo bar",
      "hello   world",
      "hello  world foo",
      "Hello. world">>

Urls ==
    <<"https://example.com",
      "http://example.com/path",
      "https://example.com/path?query=value",
      "javascript:alert(1)",
      "file:///etc/passwd",
      "example.com",
      "https://",
      "HTTPS://example.com",
      "https://example.com/a b",
      "https://example.com/<b>",
      " https://example.com",
      "https://example.com/javascript:alert(1)",
      "http://example.com/FILE:x",
      "https://example.com/ftp:data:",
      "http://example.com\n",
      "http://example.com\n\n",
      "http://example.com\r\n">>

\* Research artifacts, with either field missing and with lengths at and
\* under the minimum.
Artifacts ==
    <<[findings |-> Repeat("A", 200), sources |-> <<"source1", "source2">>],
      [findings |-> Repeat("A", 100), sources |-> <<"source1", "source2">>],
      [findings |-> Repeat("A", 99), sources |-> <<"source1", "source2", "source3">>],
      [findings |-> Repeat("A", 100), sources |-> <<"source1">>],
      [findings |-> Repeat("A", 100), sources |-> <<>>],
      [findings |-> "", sources |-> <<>>],
      [sources |-> <<"source1", "source2">>],
      [findings |-> Repeat("A", 200)],
      [topic |-> "quantum computing"]>>

\* A call made and not yet returned.
Pending(fn, arg, n) ==
    [fn |-> fn, arg |-> arg, n |-> n, pc |-> "called", result |-> "", again |-> ""]

\* The calls a behaviour can start with.
GuardCalls ==
    [k \in 1..Len(InputContents) |-> Pending("validate_input", InputContents[k], 0)]
      \o [k \in 1..Len(OutputContents) |-> Pending("validate_output", OutputContents[k], 0)]
      \o [k \in 1..Len(Urls) |-> Pending("sanitize_url", Urls[k], 0)]
      \o [k \in 1..Len(Artifacts) |->
             Pending("validate_research_quality", Artifacts[k], 0)]
      \o [k \in 1..(Len(Texts) * (MaxTokens + 1)) |->
             Pending("truncate_to_tokens", Texts[((k - 1) \div (MaxTokens + 1)) + 1],
                     (k - 1) % (MaxTokens + 1))]

InitGuard ==
    /\ now = 0
    /\ rate_limit = Quota
    /\ rate_window = Window
    /\ operation_history = <<>>
    /\ admitted = <<>>
    /\ solo = [a \in AgentIds |-> <<>>]
    /\ last = NoCall
    /\ ncalls = 0
    /\ run = Idle
    /\ runs_started = 0
    /\ run_admits = <<>>
    /\ threads = [t \in Threads |-> Ready]
    /\ audit_log = <<>>
    /\ guardrails_instance = 1
    /\ constructed = 1
    /\ callers = [c \in Threads |-> NotCalling]
    /\ prev = NoRun
    /\ files = InitialFiles
    /\ saved = <<>>
    /\ fs_last = NoFileOp
    /\ saved_as = <<>>
    /\ request_timestamps = <<>>
    /\ web_admitted = <<>>
    /\ web_last = NoWebCall
    /\ web_calls = 0
    /\ searches = <<>>
    /\ \E k \in 1..Len(GuardCalls) : call = GuardCalls[k]

\* The call returns the result.
Return(result) ==
    /\ call.pc = "called"
    /\ call' = [call EXCEPT !.pc = "returned", !.result = result]
    /\ UNCHANGED <<pipeline, files, saved, fs_last, saved_as, web>>

CallValidateInput ==
    /\ call.fn = "validate_input"
    /\ Return(validate_input(call.arg))

CallValidateOutput ==
    /\ call.fn = "validate_output"
    /\ Return(validate_output(call.arg))

CallSanitizeUrl ==
    /\ call.fn = "sanitize_url"
    /\ Return(sanitize_url(call.arg))

CallValidateResearchQuality ==
    /\ call.fn = "validate_research_quality"
    /\ Return(validate_research_quality(call.arg))

CallTruncate ==
    /\ call.fn = "truncate_to_tokens"
    /\ Return(truncate_to_tokens(call.arg, call.n))

\* truncate_to_tokens called on the text the first call returned, with the
\* same limit.
CallTruncateAgain ==
    /\ call.fn = "truncate_to_tokens"
    /\ call.pc = "returned"
    /\ call' = [call EXCEPT !.pc = "returned_again",
                            !.again = truncate_to_tokens(call.result, call.n)]
    /\ UNCHANGED <<pipeline, files, saved, fs_last, saved_as, web>>

NextGuard ==
    \/ CallValidateInput
    \/ CallValidateOutput
    \/ CallSanitizeUrl
    \/ CallValidateResearchQuality
    \/ CallTruncate
    \/ CallTruncateAgain

GuardSpec == InitGuard /\ [][NextGuard]_vars

(***************************************************************************)
(* WebSpec: calls on one WebSearchTool instance                            *)
(* ToolSpec: calls of the search_web tool                                  *)
(***************************************************************************)
WebQuota == 2
ClockStep == 20
MaxWebTime == 80
MaxWebCalls == 4
MaxToolCalls == 11

\* Everything but the web search state and its history.
others == <<pipeline, files, saved, fs_last, call, saved_as>>

\* time.time() moves on.
WebTick ==
    /\ now + ClockStep <= MaxWebTime
    /\ now' = now + ClockStep
    /\ UNCHANGED <<config, audit_log, singleton, prev, threads, limiter, ncalls, run,
                   runs_started, run_admits, files, saved, fs_last, call, saved_as, web>>

\* self._check_rate_limit() on the instance, constructed with
\* rate_limit=WebQuota.
CallCheckRateLimit ==
    /\ web_calls < MaxWebCalls
    /\ LET r == _check_rate_limit(request_timestamps, now, WebQuota)
       IN  /\ request_timestamps' = r.request_timestamps
           /\ web_admitted' = IF r.returned THEN Append(web_admitted, now)
                              ELSE web_admitted
           /\ web_last' = [op |-> "_check_rate_limit", time |-> now,
                           before |-> request_timestamps,
                           after |-> r.request_timestamps,
                           admitted_before |-> web_admitted,
                           returned |-> r.returned, raised |-> ""]
    /\ web_calls' = web_calls + 1
    /\ UNCHANGED <<others, searches>>

\* self.search(query) on the instance.
CallSearch ==
    /\ web_calls < MaxWebCalls
    /\ LET r == search(request_timestamps, now, WebQuota)
       IN  /\ request_timestamps' = r.request_timestamps
           /\ web_admitted' = IF r.searched THEN Append(web_admitted, now)
                              ELSE web_admitted
           /\ searches' = IF r.searched THEN Append(searches, now) ELSE searches
           /\ web_last' = [op |-> "search", time |-> now,
                           before |-> request_timestamps,
                           after |-> r.request_timestamps,
                           admitted_before |-> web_admitted,
                           returned |-> r.searched, raised |-> r.raised]
    /\ web_calls' = web_calls + 1
    /\ UNCHANGED others

NextWeb ==
    \/ WebTick
    \/ CallCheckRateLimit
    \/ CallSearch

WebSpec == Init /\ [][NextWeb]_vars

\* search_web_tool(query), called by a task runner.
CallSearchWebTool ==
    /\ web_calls < MaxToolCalls
    /\ LET r == search_web_tool(now)
       IN  /\ searches' = IF r.searched THEN Append(searches, now) ELSE searches
           /\ web_last' = [op |-> "search_web_tool", time |-> now, before |-> <<>>,
                           after |-> r.request_timestamps,
                           admitted_before |-> web_admitted,
                           returned |-> r.searched, raised |-> r.raised]
    /\ web_calls' = web_calls + 1
    /\ UNCHANGED <<others, request_timestamps, web_admitted>>

NextTool ==
    \/ WebTick
    \/ CallSearchWebTool

ToolSpec == Init /\ [][NextTool]_vars

(***************************************************************************)
(* The rate limiter's properties                                           *)
(***************************************************************************)
Called == last.agent_id \in AgentIds

\* The timestamps a log holds for one identity, in order.
TimestampsOf(log, agent_id) ==
    LET own == SelectSeq(log, LAMBDA op : op.agent_id = agent_id)
    IN  [i \in 1..Len(own) |-> own[i].timestamp]

\* Number of entries of `log` for agent_id with lo < timestamp <= hi.
CountAfter(log, agent_id, lo, hi) ==
    Cardinality({i \in 1..Len(log) : /\ log[i].agent_id = agent_id
                                     /\ log[i].timestamp > lo
                                     /\ log[i].timestamp <= hi})

\* Number of entries of `log` for agent_id with lo <= timestamp <= hi.
CountFrom(log, agent_id, lo, hi) ==
    Cardinality({i \in 1..Len(log) : /\ log[i].agent_id = agent_id
                                     /\ log[i].timestamp >= lo
                                     /\ log[i].timestamp <= hi})

\* Admitted calls of the latest caller that were less than rate_window old
\* when the latest call was made.
InWindowBefore ==
    CountAfter(last.admitted_before, last.agent_id,
               last.timestamp - rate_window, last.timestamp)

\* C1: once exactly rate_limit calls of an identity have been admitted inside
\* one window, its next call inside that window is denied; a call made when
\* the window has elapsed past the oldest of them (fewer than rate_limit
\* admitted calls are still inside the window) is admitted again.
C1_QuotaDeniesThenReadmits ==
    Called =>
        /\ InWindowBefore = rate_limit => ~last.allowed
        /\ InWindowBefore < rate_limit => last.allowed

\* The identity was denied on its previous call and is admitted on this one.
C1_Witness ==
    /\ Called
    /\ last.prev_denied
    /\ last.allowed
    /\ CountAfter(last.admitted_before, last.agent_id, -1, last.timestamp) >= rate_limit

\* C2: in every trailing interval of length rate_window, its two end points
\* included, the admitted calls of an identity never exceed rate_limit.
C2_ClosedWindowBound ==
    \A agent_id \in AgentIds : \A t \in 0..now :
        CountFrom(admitted, agent_id, t - rate_window, t) <= rate_limit

\* The bound the code keeps: intervals that leave out the point exactly
\* rate_window before their end.
HalfOpenWindowBound ==
    \A agent_id \in AgentIds : \A t \in 0..now :
        CountAfter(admitted, agent_id, t - rate_window, t) <= rate_limit

\* Number of entries of `log` for agent_id with exactly this timestamp.
CountAt(log, agent_id, t) ==
    Cardinality({i \in 1..Len(log) : log[i].agent_id = agent_id /\ log[i].timestamp = t})

\* C3: under any interleaving of concurrent check_rate_limit calls the calls
\* admitted to an identity within one window never exceed rate_limit, and
\* every admitted timestamp that is less than rate_window old is still in
\* operation_history.
C3_AdmissionIsAtomic ==
    /\ HalfOpenWindowBound
    /\ \A agent_id \in AgentIds : \A t \in 0..now :
          now - t < rate_window =>
              CountAt(operation_history, agent_id, t) = CountAt(admitted, agent_id, t)

\* C4: a denied call records nothing: the identity's recorded timestamps are
\* those it had before the call that are less than rate_window old, and no
\* admission is added.
C4_DenialRecordsNothing ==
    (Called /\ ~last.allowed) =>
        /\ TimestampsOf(operation_history, last.agent_id)
             = TimestampsOf(SelectSeq(last.before,
                   LAMBDA op : last.timestamp - op.timestamp < rate_window),
                 last.agent_id)
        /\ admitted = last.admitted_before

\* A denied call that pruned another identity's expired entry.
C4_Witness ==
    /\ Called
    /\ ~last.allowed
    /\ Len(operation_history) < Len(last.before)

\* C5: the verdict for an identity is the verdict of an engine that received
\* that identity's calls only.
C5_IdentitiesIndependent ==
    Called => last.allowed = last.solo_allowed

\* The caller is admitted while an identity that differs from it only in
\* letter case has used up its quota inside the window.
C5_Witness ==
    /\ Called
    /\ last.allowed
    /\ \E other \in AgentIds \ {last.agent_id} :
          /\ FoldCase(other) = FoldCase(last.agent_id)
          /\ CountAfter(last.before, other, last.timestamp - rate_window,
                        last.timestamp) >= rate_limit

(***************************************************************************)
(* The pipeline's properties                                               *)
(***************************************************************************)
InRun == run.pc # "idle"
Returned == run.pc = "returned"

\* What the run itself has done outside the engine so far.
NoSideEffects ==
    /\ run.invocations = 0
    /\ run.stored = <<>>
    /\ run.written = <<>>

\* The persistence steps of a run.
PersistenceSteps == {"store_research", "store_summary", "save_research", "save_summary"}

\* Both task runners returned text.
StagesReturned == InRun /\ run.research_output # "" /\ run.summary_output # ""

\* C6: every run is admitted under the identity "orchestrator" and all runs
\* share its window: a run with a valid topic that starts while rate_limit
\* admitted runs are less than rate_window old ends AdmissionDenied without
\* any task-runner invocation, and one that starts while fewer are is admitted.
C6_RunsShareOneWindow ==
    (InRun /\ run.input.is_valid) =>
        /\ run.admission.agent_id = ORCHESTRATOR
        /\ run.prior_admits >= rate_limit =>
              /\ Returned
              /\ run.outcome = "AdmissionDenied"
              /\ ~run.result.success
              /\ run.invocations = 0
        /\ run.prior_admits < rate_limit =>
              /\ run.allowed = "admitted"
              /\ run.outcome # "AdmissionDenied"

\* From a fresh engine, rate_limit runs were admitted and run number
\* rate_limit + 1, started inside the same window, is denied.
C6_Witness ==
    /\ Returned
    /\ run.outcome = "AdmissionDenied"
    /\ runs_started = rate_limit + 1
    /\ Len(run_admits) = rate_limit
    /\ run.prior_admits = rate_limit

\* C7: a run that validate_input rejects or check_rate_limit denies goes no
\* further, and a run that ends InputRejected or AdmissionDenied has invoked
\* no task runner, stored no memory entry and written no file.
C7_FailClosed ==
    (InRun /\ (\/ ~run.input.is_valid
               \/ run.allowed = "denied"
               \/ run.outcome \in {"InputRejected", "AdmissionDenied"})) =>
        /\ NoSideEffects
        /\ Returned
        /\ run.outcome \in {"InputRejected", "AdmissionDenied"}
        /\ ~run.result.success

\* A run ended AdmissionDenied.
C7_Witness ==
    /\ Returned
    /\ run.outcome = "AdmissionDenied"
    /\ run.allowed = "denied"

\* C8: a run whose topic validate_input rejects makes no check_rate_limit
\* call: the engine's history and its admissions are as they were when the
\* run was entered.
C8_RejectedTopicUsesNoQuota ==
    (InRun /\ ~run.input.is_valid) =>
        /\ operation_history = run.history_at_entry
        /\ last = run.last_at_entry
        /\ run.admission = NoCall

\* A rejected topic, while the orchestrator has one admission left.
C8_Witness ==
    /\ Returned
    /\ run.outcome = "InputRejected"
    /\ Len(agent_operations(operation_history, ORCHESTRATOR)) = rate_limit - 1

\* C9 as claimed: whenever a run returns a failure result, whatever raised
\* the error, the run has stored no memory entry and written no file.
C9_NoPersistenceOnAnyFailure ==
    (Returned /\ ~run.result.success) =>
        /\ run.stored = <<>>
        /\ run.written = <<>>

\* C9 as amended: whenever a run returns a failure result for a rejected
\* topic, a denied admission or an error raised before the first
\* store_memory call (crew construction or a task runner), the run has
\* stored no memory entry and written no file.
C9_NoPersistenceOnEarlyFailure ==
    (Returned /\ ~run.result.success /\ run.raised_at \notin PersistenceSteps) =>
        /\ run.stored = <<>>
        /\ run.written = <<>>

\* The summary task runner raised after the research task runner returned.
C9_Witness ==
    /\ Returned
    /\ run.outcome = "ExecutionError"
    /\ run.raised_at = "stage2"
    /\ run.research_output # ""
    /\ run.stored = <<>>

C11_FailureIsStructured ==
    (Returned /\ ~run.result.success) =>
        /\ {"topic", "session_id", "error"} \subseteq DOMAIN run.result
        /\ run.result.topic = run.topic
        /\ run.result.session_id = session_id
        /\ run.result.error # ""

\* C12: research_and_summarize never lets an error reach its caller: a run
\* in which a task runner, the memory capability or the file capability
\* raised ends with a failure result that carries the error's message.
C12_NoErrorPropagates ==
    /\ run.pc # "raised"
    /\ (Returned /\ run.raised_at # "") =>
            /\ ~run.result.success
            /\ run.result.error = "Error during execution: " \o run.error

\* The file capability raised on the second file, after both memory
\* entries and the first file were written, and the call returned a failure.
C12_Witness ==
    /\ Returned
    /\ run.raised_at = "save_summary"
    /\ ~run.result.success
    /\ Len(run.written) = 1

(***************************************************************************)
(* The audit log's properties                                              *)
(***************************************************************************)
\* The entries for the orchestrator the log has gained since the run in
\* progress was entered (runs execute one after another), and their statuses.
AuditEntriesOfRun ==
    SelectSeq(SubSeq(audit_log, run.audit_at_entry + 1, Len(audit_log)),
              LAMBDA entry : entry.agent_id = ORCHESTRATOR)
Statuses(entries) == [i \in 1..Len(entries) |-> entries[i].status]

\* C13: once a run has reached Done, the audit log holds for "orchestrator"
\* exactly one `started` entry of the run followed by exactly one
\* `completed` entry of the run, and no `failed` entry of the run.
C13_DoneRunIsAudited ==
    (Returned /\ run.outcome = "Done") =>
        Statuses(AuditEntriesOfRun) = <<"started", "completed">>

\* C14: once a run has failed, at whichever step (input validation,
\* admission, stage execution, persistence), the audit log holds a `failed`
\* entry of the run that carries the error message.
C14_FailedRunIsAudited ==
    (Returned /\ ~run.result.success) =>
        \E i \in 1..Len(AuditEntriesOfRun) :
            /\ AuditEntriesOfRun[i].status = "failed"
            /\ "error" \in DOMAIN AuditEntriesOfRun[i].metadata
            /\ AuditEntriesOfRun[i].metadata.error # ""

\* C15: the audit log is append-only with one entry per call: a step that
\* makes a log_operation call appends that call's entry to the log, and
\* every step leaves the entries already in the log as they were.
C15_AuditLogAppendOnly ==
    [][/\ Len(audit_log') >= Len(audit_log)
       /\ SubSeq(audit_log', 1, Len(audit_log)) = audit_log
       /\ (run'.logged # run.logged /\ run'.logged # <<>>) =>
              audit_log' = Append(audit_log, run'.logged[Len(run'.logged)])]_vars

(***************************************************************************)
(* The order of a run's steps                                              *)
(***************************************************************************)
\* The summary task runner has been invoked, or is about to be.
Stage2Begun == run.pc = "stage2" \/ run.summary_output # "" \/ run.raised_at = "stage2"

\* research_and_summarize has begun to persist: a store_memory or
\* save_research call of its own is next, or has been made or attempted.
PersistenceBegun ==
    \/ run.pc \in PersistenceSteps
    \/ run.raised_at \in PersistenceSteps
    \/ run.stored # <<>>
    \/ run.written # <<>>

\* C16: within one run Stage 2 never begins before Stage 1's output exists,
\* and no memory store or file write of the run begins before both stage
\* outputs exist.
C16_StepsInOrder ==
    /\ Stage2Begun => run.research_output # ""
    /\ PersistenceBegun => (run.research_output # "" /\ run.summary_output # "")
    /\ run.stored # <<>> => run.output # NoVerdict

\* The first memory entry of a run is stored and the second is next.
C16_Witness ==
    /\ run.pc = "store_summary"
    /\ Len(run.stored) = 1
    /\ run.research_output # ""
    /\ run.summary_output # ""

\* C17: in every run that completes Stage 1 the quality gate
\* validate_research_quality is applied to the Stage 1 output before the
\* run goes on: once Stage 2 has returned, the run holds the gate's verdict.
C17_QualityGateApplied ==
    (InRun /\ run.research_output # "" /\ run.summary_output # "") =>
        run.quality # NoVerdict

(***************************************************************************)
(* The engine singleton's properties                                       *)
(***************************************************************************)
\* The threads to which get_guardrails has returned an engine.
Holders == {c \in Threads : callers[c].pc = "ready" /\ callers[c].held # 0}

\* C18: get_guardrails constructs the engine at most once, and every
\* caller, concurrent first callers included, holds the same instance.
C18_ConstructedOnce ==
    /\ constructed <= 1
    /\ \A c, d \in Holders : callers[c].held = callers[d].held

(***************************************************************************)
(* The session id's properties                                             *)
(***************************************************************************)
\* C19: each run's session id is derived from that run's own start time at
\* second resolution, so two runs started in different seconds (the run in
\* progress and the latest admitted run before it) have different session
\* ids.
C19_SessionIdPerRun ==
    InRun =>
        /\ run.session_id = strftime(run.started_at)
        /\ (prev # NoRun /\ prev.started_at # run.started_at) =>
               prev.session_id # run.session_id

(***************************************************************************)
(* Termination                                                             *)
(***************************************************************************)
\* C20: every run that passed admission eventually returns a success or a
\* failure result (Done or Failed), given that each task-runner, memory and
\* file call returns or raises.
C20_AdmittedRunTerminates ==
    (InRun /\ run.allowed = "admitted") ~>
        (Returned /\ run.outcome \in {"Done", "ExecutionError"}
                  /\ run.result # NoResult)

\* An admitted run has returned a failure after the research task runner
\* raised.
C20_Witness ==
    /\ Returned
    /\ run.allowed = "admitted"
    /\ run.raised_at = "stage1"
    /\ run.outcome = "ExecutionError"

(***************************************************************************)
(* FileSystemTool properties                                               *)
(***************************************************************************)
\* The path lies inside the base directory.
Inside(path) == startswith(path, abspath(base_directory) \o "/")

\* The filename has a parent-directory component and, taken relative to the
\* base directory, names a place outside it.
ResolvesOutside(filename) ==
    /\ \E i \in 1..Len(SplitPath(filename)) : SplitPath(filename)[i] = ".."
    /\ ~Inside(abspath(join(base_directory, filename)))

\* C21: a save_research call whose filename has parent-directory components
\* that resolve outside the base directory raises an error and opens no file
\* for writing.
C21_TraversalRejected ==
    (fs_last.op = "save" /\ ResolvesOutside(fs_last.filename))
        => (fs_last.raised # "" /\ fs_last.opened = "")

\* C22: every file save_research writes or load_research reads lies inside the
\* base directory, and the files outside it are never created or changed.
C22_Containment ==
    /\ fs_last.opened # "" => Inside(fs_last.opened)
    /\ \A q \in DOMAIN files :
          ~Inside(q) => (q \in DOMAIN InitialFiles /\ files[q] = InitialFiles[q])
    /\ \A q \in DOMAIN InitialFiles : q \in DOMAIN files

\* C22 witness: a save with a traversal filename has written a file, and the
\* file lies inside the base directory.
C22_Witness ==
    /\ fs_last.op = "save"
    /\ fs_last.filename = "../../etc/passwd"
    /\ fs_last.opened = "/app/data/research/passwd"
    /\ "/app/data/research/passwd" \in DOMAIN files

\* C23: a load_research call that returns, of a file whose latest write was a
\* save_research call, returns exactly the content that call was given.
C23_RoundTrip ==
    (fs_last.op = "load" /\ fs_last.raised = "" /\ fs_last.opened \in DOMAIN saved)
        => fs_last.returned = saved[fs_last.opened]

\* The content comes back from a save and a load of its own unchanged.
RoundTrips(content) == as_read[written_text(content)] = content

\* C35: a load_research(a) that returns, after the latest save_research(c1, a)
\* and any saves under other filenames, returns c1 (for contents that a save
\* and load of their own give back unchanged).
C35_OtherNamesUndisturbed ==
    (/\ fs_last.op = "load"
     /\ fs_last.raised = ""
     /\ fs_last.filename \in DOMAIN saved_as
     /\ RoundTrips(saved_as[fs_last.filename]))
        => fs_last.returned = saved_as[fs_last.filename]

(***************************************************************************)
(* Guardrail properties                                                    *)
(***************************************************************************)
\* The named guardrail call has returned.
Answered(fn) == call.fn = fn /\ call.pc = "returned"

\* The term, a lower-case word, occurs in the content in some letter case.
ContainsAnyCase(content, term) ==
    \E i \in 1..(Len(content) - Len(term) + 1) :
        \A j \in 1..Len(term) : LowerChar(CharAt(content, i + j - 1)) = CharAt(term, j)

HasBlockedTerm(content) ==
    \E k \in 1..Len(blocked_terms) : ContainsAnyCase(content, blocked_terms[k])

\* C24: validate_input rejects every content that contains a blocked term, in
\* any letter case and anywhere in the content, and the reason names a blocked
\* term the content contains.
C24_BlockedTermRejected ==
    (Answered("validate_input") /\ HasBlockedTerm(call.arg))
        => /\ ~call.result.is_valid
           /\ \E k \in 1..Len(blocked_terms) :
                 /\ ContainsAnyCase(call.arg, blocked_terms[k])
                 /\ call.result.error = "Content contains blocked term: " \o blocked_terms[k]

\* C24 witness: a content with a blocked term in mixed case between other
\* characters has been rejected with the term in the reason.
C24_Witness ==
    /\ Answered("validate_input")
    /\ call.arg = "xxPhIsHiNgxx"
    /\ call.result = Rejected("Content contains blocked term: phishing")

\* C25: validate_input returns the reason of the first failing rule in the
\* order blocked term, length, injection pattern, and Valid when no rule
\* fails.
C25_FirstFailingRule ==
    Answered("validate_input")
        => IF HasBlockedTerm(call.arg)
           THEN /\ ~call.result.is_valid
                /\ startswith(call.result.error, "Content contains blocked term: ")
           ELSE IF Len(call.arg) > max_content_length
           THEN call.result = Rejected("Content exceeds maximum length (50000 chars)")
           ELSE IF MatchesSuspiciousPattern(call.arg)
           THEN call.result = Rejected("Content contains potentially malicious patterns")
           ELSE call.result = Valid

\* C25 witness: a content that has a blocked term, is over the maximum length
\* and has an injection pattern has been rejected for the blocked term.
C25_Witness ==
    /\ Answered("validate_input")
    /\ HasBlockedTerm(call.arg)
    /\ Len(call.arg) > max_content_length
    /\ MatchesSuspiciousPattern(call.arg)
    /\ call.result = Rejected("Content contains blocked term: piracy")

\* The length of the text between its first and its last character that is
\* not whitespace.
TrimmedLen(text) ==
    LET inked == {i \in 1..Len(text) : ~IsSpace(CharAt(text, i))}
    IN  IF inked = {} THEN 0
        ELSE (CHOOSE i \in inked : \A j \in inked : j <= i)
               - (CHOOSE i \in inked : \A j \in inked : i <= j) + 1

\* C26: validate_output rejects every text whose trimmed length is under 50
\* characters; when the text passes every input rule the reason is that the
\* output is too short.
C26_ShortOutputRejected ==
    (Answered("validate_output") /\ TrimmedLen(call.arg) < 50)
        => /\ ~call.result.is_valid
           /\ validate_input(call.arg).is_valid
                 => call.result = Rejected("Output is too short to be useful")

\* C26 witness: a text of 49 characters between whitespace, 50 and more with
\* it, that has a citation and passes the input rules has been rejected as
\* too short.
C26_Witness ==
    /\ Answered("validate_output")
    /\ TrimmedLen(call.arg) = 49
    /\ Len(call.arg) >= 50
    /\ HasSources(call.arg)
    /\ call.result = Rejected("Output is too short to be useful")

\* C27: truncating the result of truncate_to_tokens(text, N) again with the
\* same N >= 1 returns it unchanged.
C27_TruncateIdempotent ==
    (call.fn = "truncate_to_tokens" /\ call.pc = "returned_again" /\ call.n >= 1)
        => call.again = call.result

\* C28: the text truncate_to_tokens(text, N) returns, N >= 1, has at most N
\* tokens, the truncation marker counted.
C28_TruncatedCountAtMostN ==
    (call.fn = "truncate_to_tokens" /\ call.pc # "called" /\ call.n >= 1)
        => count_tokens(call.result) <= call.n

\* The url is http:// or https:// followed by one or more characters, none of
\* them whitespace, an angle bracket or a double quote.
HasUrlForm(url) ==
    \E scheme \in {"http://", "https://"} :
        /\ OccursAt(url, scheme, 1)
        /\ Len(url) > Len(scheme)
        /\ \A i \in (Len(scheme) + 1)..Len(url) :
              CharAt(url, i) \notin SpaceChars \cup {"<", ">", "\""}

\* C29: sanitize_url accepts a url only if it has the url form and its
\* lowered text contains no blocked scheme, and then returns the trimmed url;
\* when it rejects, the second result is a reason.
C29_UrlAcceptedOnlyIfWellFormed ==
    Answered("sanitize_url")
        => IF call.result[1]
           THEN /\ HasUrlForm(call.arg)
                /\ \A k \in 1..Len(suspicious) : ~ContainsAnyCase(call.arg, suspicious[k])
                /\ call.result[2] = strip(call.arg)
           ELSE \/ call.result[2] = "Invalid URL format"
                \/ \E k \in 1..Len(suspicious) :
                      call.result[2] = "Blocked URL protocol: " \o suspicious[k]

\* The artifact has both fields, at least 100 characters of findings and at
\* least 2 sources.
Sufficient(research) ==
    /\ "findings" \in DOMAIN research
    /\ "sources" \in DOMAIN research
    /\ Len(research.findings) >= 100
    /\ Len(research.sources) >= 2

\* C30: validate_research_quality returns Valid exactly when the artifact has
\* a findings and a sources field, findings of at least 100 characters and at
\* least 2 sources; otherwise it returns Rejected with a reason.
C30_QualityVerdict ==
    Answered("validate_research_quality")
        => /\ call.result = Valid <=> Sufficient(call.arg)
           /\ ~Sufficient(call.arg)
                 => /\ ~call.result.is_valid
                    /\ call.result.error \notin {"", "None"}

\* C30 witness: an artifact with exactly 100 characters of findings and
\* exactly 2 sources has been found Valid.
C30_Witness ==
    /\ Answered("validate_research_quality")
    /\ Sufficient(call.arg)
    /\ Len(call.arg.findings) = 100
    /\ Len(call.arg.sources) = 2
    /\ call.result = Valid

\* The log_operation call number k of the run has a `started` call of the run
\* before it.
StartedBefore(k) == \E j \in 1..(k - 1) : run.logged[j].status = "started"

\* C33: every `completed` or `failed` record a run emits comes after a
\* `started` record of the same run, whichever step after admission failed.
C33_StartedBeforeOutcome ==
    \A k \in 1..Len(run.logged) :
        run.logged[k].status \in {"completed", "failed"} => StartedBefore(k)

\* The number of places of the sequence that hold the element.
Occurrences(seq, e) == Cardinality({i \in 1..Len(seq) : seq[i] = e})

\* The admission entry of the run in progress.
AdmissionOfRun ==
    [agent_id |-> run.admission.agent_id, timestamp |-> run.admission.timestamp]

\* C34: when an admitted run has failed with an execution error, its admission
\* is still in the engine's history as long as it lies inside the window, and
\* with `quota` such admissions inside the window a run entered now is
\* denied.
C34_AdmissionNotRefunded ==
    (Returned /\ run.outcome = "ExecutionError" /\ run.allowed = "admitted")
        => /\ Occurrences(admitted, AdmissionOfRun) >= 1
           /\ AdmissionOfRun.timestamp > cutoff_time(now, rate_window)
                 => Occurrences(operation_history, AdmissionOfRun)
                      = Occurrences(admitted, AdmissionOfRun)
           /\ RunAdmitsInWindow(now) >= rate_limit
                 => ~check_rate_limit(operation_history, ORCHESTRATOR, now,
                                      rate_limit, rate_window).allowed

\* C34 witness: an admitted run has failed with an execution error, it is the
\* last of `quota` runs admitted inside the window, and a run entered now
\* would be denied.
C34_Witness ==
    /\ Returned
    /\ run.outcome = "ExecutionError"
    /\ run.allowed = "admitted"
    /\ RunAdmitsInWindow(now) = rate_limit
    /\ ncalls = 0
    /\ ~check_rate_limit(operation_history, ORCHESTRATOR, now,
                         rate_limit, rate_window).allowed

\* The limit a truncate_to_tokens call applies: the one given, or the default.
LimitOf(n) == IF n = 0 THEN max_tokens ELSE n

\* The text of the first k tokens of a token sequence.
RECURSIVE TextOfFirst(_, _)
TextOfFirst(tokens, k) ==
    IF k = 0 \/ Len(tokens) = 0 THEN ""
    ELSE Head(tokens) \o TextOfFirst(Tail(tokens), k - 1)

\* C32: truncate_to_tokens returns the text unchanged when it has at most
\* max_tokens tokens; otherwise it returns the text of exactly the first
\* max_tokens tokens followed by "...", so that the result has at most
\* max_tokens tokens plus those of the marker.
C32_TruncateShape ==
    (call.fn = "truncate_to_tokens" /\ call.pc # "called")
        => /\ count_tokens(call.arg) <= LimitOf(call.n) => call.result = call.arg
           /\ count_tokens(call.arg) > LimitOf(call.n)
                 => call.result = TextOfFirst(encode(call.arg), LimitOf(call.n)) \o "..."
           /\ count_tokens(call.result) <= LimitOf(call.n) + count_tokens("...")

\* C32 witness: a text of more than max_tokens tokens has been cut to its
\* first max_tokens tokens and the marker, and the result has one token more
\* than max_tokens.
C32_Witness ==
    /\ call.fn = "truncate_to_tokens"
    /\ call.pc = "returned"
    /\ call.arg = "hello world foo bar"
    /\ call.n = 2
    /\ call.result = "hello world..."
    /\ count_tokens(call.result) = 3

(***************************************************************************)
(* WebSearchTool properties                                                *)
(***************************************************************************)
\* The number of the times that lie in the 60 seconds from `start` on.
CountInSpan(times, start) ==
    Cardinality({j \in 1..Len(times) :
                    times[j] >= start /\ times[j] - start < web_window})

\* The number of the times less than 60 seconds before `time`.
CountRecent(times, time) ==
    Cardinality({j \in 1..Len(times) : time - times[j] < web_window})

\* Every element of `inner` is an element of `outer`.
OnlyFrom(inner, outer) ==
    \A i \in 1..Len(inner) : \E j \in 1..Len(outer) : inner[i] = outer[j]

\* C31: on one WebSearchTool instance the calls _check_rate_limit admits in
\* any span of 60 seconds are at most rate_limit, and a call made when
\* rate_limit admitted calls lie less than 60 seconds back returns False and
\* records no timestamp.
C31_WebQuotaHeld ==
    /\ \A i \in 1..Len(web_admitted) :
          CountInSpan(web_admitted, web_admitted[i]) <= WebQuota
    /\ (web_last.op \in {"_check_rate_limit", "search"}
          /\ CountRecent(web_last.admitted_before, web_last.time) >= WebQuota)
         => /\ ~web_last.returned
            /\ web_admitted = web_last.admitted_before
            /\ OnlyFrom(web_last.after, web_last.before)

\* C31 witness: _check_rate_limit has returned False with rate_limit calls
\* admitted in the 60 seconds before it, not all at the time of the call.
C31_Witness ==
    /\ web_last.op = "_check_rate_limit"
    /\ ~web_last.returned
    /\ CountRecent(web_last.admitted_before, web_last.time) = WebQuota
    /\ web_last.time > web_last.admitted_before[1]

\* C36: through any sequence of search_web tool calls, the searches performed
\* in any span of 60 seconds are at most rate_limit, and a call made when
\* rate_limit searches lie less than 60 seconds back fails with the rate-limit
\* error.
C36_ToolQuotaHeld ==
    /\ \A i \in 1..Len(searches) :
          CountInSpan(searches, searches[i]) <= default_rate_limit
    /\ (web_last.op = "search_web_tool"
          /\ CountRecent(searches, web_last.time) > default_rate_limit)
         => web_last.raised # ""
====
